---------------------------- MODULE Spec2Model ----------------------------
(***************************************************************************)
(* A model of blog-publisher: the settings store, the content store        *)
(* (posts, tags, categories), the two publisher adapters, the Blogger      *)
(* OAuth credential manager and the backup/restore utilities.              *)
(*                                                                         *)
(* Python strings that are split and stripped (tags, categories) are       *)
(* sequences of one-character strings.  A value held by the settings store *)
(* is a record: None, Str(s) for a Python str, or the credential blob that *)
(* json.dumps writes.                                                      *)
(***************************************************************************)
EXTENDS Integers, Sequences, FiniteSets, TLC

VARIABLES
    settings,       \* Setting rows: a set of [key, value]
    posts,          \* Post rows: a set of records
    tags,           \* AvailableTag rows: a set of [name, description, usage_count]
    cats,           \* AvailableCategory rows
    backup,         \* the JSON document written by backup_database, or NoBackup
    backupOf,       \* history: the store contents the backup was taken from
    issued,         \* platform: number of access tokens issued so far
    expiredTokens,  \* platform: the access tokens that have expired
    revoked,        \* platform: the refresh token has been revoked
    inFlight,       \* the publish requests being handled: request -> its progress
    received,       \* platform: the POSTs received, as <<request, post id>>
    lastCall        \* history: the last request, its arguments and its outcome

vars == <<settings, posts, tags, cats, backup, backupOf, issued, expiredTokens,
          revoked, inFlight, received, lastCall>>

storeVars == <<posts, tags, cats>>
platformVars == <<issued, expiredTokens, revoked>>
webVars == <<inFlight, received>>

-----------------------------------------------------------------------------
(* Bounds *)

MaxTokens == 2
MaxPosts == 2
MaxPostId == 2
MaxCount == 3
MaxRequests == 2

-----------------------------------------------------------------------------
(* Values *)

None == [kind |-> "none"]
Str(s) == [kind |-> "str", s |-> s]

\* Python truthiness of a settings value: None and '' are falsy.
Truthy(v) == v # None /\ v # Str("")

\* What a submitted form field can hold: absent, empty, or a value.
FormValues(v) == {None, Str(""), Str(v)}

StateTokens == {Str("s1"), Str("s2")}
Codes == {"valid", "invalid"}

-----------------------------------------------------------------------------
(* Settings store *)

SettingRows(key) == {r \in settings : r.key = key}

SettingGet(key, default) ==
    IF SettingRows(key) # {}
    THEN (CHOOSE r \in SettingRows(key) : TRUE).value
    ELSE default

\* Setting.set: the row of the key is updated, or a row is added.
SettingSetAppend(rows, key, value) == rows \cup {[key |-> key, value |-> value]}

SettingSet(rows, key, value) ==
    LET found == {r \in rows : r.key = key}
    IN  IF found # {}
        THEN LET setting == CHOOSE r \in found : TRUE
             IN  (rows \ {setting}) \cup {[key |-> key, value |-> value]}
        ELSE rows \cup {[key |-> key, value |-> value]}

Get(key) == SettingGet(key, None)

-----------------------------------------------------------------------------
(* History of the last request *)

NoCall ==
    [op |-> "none", prevOp |-> "none", ok |-> TRUE, err |-> "", state |-> None, code |-> "",
     id |-> 0, tags |-> <<>>, adapter |-> "", exchanges |-> 0, refreshes |-> 0, http |-> 0,
     expiredAtCall |-> FALSE, intoEmpty |-> FALSE, name |-> <<>>, count |-> 0,
     prevState |-> None, key |-> "", value |-> None, default |-> None,
     labels |-> <<>>, status_code |-> 0, text |-> ""]

Call(op, ok, err) ==
    [NoCall EXCEPT !.op = op, !.prevOp = lastCall.op, !.prevState = lastCall.state,
                   !.ok = ok, !.err = err]

\* Setting.get(key, default) and Setting.set(key, value) as calls.
Setting_get(key, default) ==
    /\ lastCall' = [Call("Setting.get", TRUE, "") EXCEPT
                      !.key = key, !.default = default,
                      !.value = SettingGet(key, default)]
    /\ UNCHANGED <<settings, storeVars, backup, backupOf, platformVars, webVars>>

Setting_set(key, value) ==
    /\ settings' = SettingSet(settings, key, value)
    /\ lastCall' = [Call("Setting.set", TRUE, "") EXCEPT !.key = key, !.value = value]
    /\ UNCHANGED <<storeVars, backup, backupOf, platformVars, webVars>>

-----------------------------------------------------------------------------
(* routes/main.py: the settings form *)

\* settings_post: blog_type is always written; the platform's three fields are
\* written only for the platform chosen.
SettingsAfterForm(blog_type, f1, f2, f3) ==
    LET s0 == SettingSet(settings, "blog_type", blog_type)
    IN  IF blog_type = Str("blogger")
        THEN SettingSet(SettingSet(SettingSet(s0,
                 "blogger_blog_id", f1),
                 "blogger_client_id", f2),
                 "blogger_client_secret", f3)
        ELSE IF blog_type = Str("wordpress")
        THEN SettingSet(SettingSet(SettingSet(s0,
                 "wordpress_url", f1),
                 "wordpress_username", f2),
                 "wordpress_password", f3)
        ELSE s0

settings_post(blog_type, f1, f2, f3) ==
    /\ settings' = SettingsAfterForm(blog_type, f1, f2, f3)
    /\ lastCall' = Call("settings_post", TRUE, "")
    /\ UNCHANGED <<storeVars, backup, backupOf, platformVars, webVars>>

-----------------------------------------------------------------------------
(* api/blogger.py: the OAuth credential manager *)

SCOPES == "https://www.googleapis.com/auth/blogger"
TOKEN_URI == "https://oauth2.googleapis.com/token"

\* not client_id or not client_secret
NotConfiguredIdOnly(client_id, client_secret) == ~Truthy(client_id)

NotConfigured(client_id, client_secret) == ~Truthy(client_id) \/ ~Truthy(client_secret)

\* Setting.set('blogger_oauth_state', state)
StoreStateIfNone(rows, state) ==
    IF \E r \in rows : r.key = "blogger_oauth_state" THEN rows
    ELSE SettingSet(rows, "blogger_oauth_state", state)

StoreState(rows, state) == SettingSet(rows, "blogger_oauth_state", state)

\* get_auth_url: the state the library generates is an input.
get_auth_url(state) ==
    LET client_id == Get("blogger_client_id")
        client_secret == Get("blogger_client_secret")
    IN  /\ IF NotConfigured(client_id, client_secret)
           THEN /\ lastCall' = Call("get_auth_url", FALSE,
                                    "Blogger OAuth credentials not configured")
                /\ UNCHANGED settings
           ELSE /\ settings' = StoreState(settings, state)
                /\ lastCall' = [Call("get_auth_url", TRUE, "") EXCEPT !.state = state]
        /\ UNCHANGED <<storeVars, backup, backupOf, platformVars, webVars>>

\* The comparison of handle_callback: state != stored_state.
StateMismatchNever(state, stored_state) == FALSE

StateMismatchOrNone(state, stored_state) == state # stored_state \/ state = None

StateMismatch(state, stored_state) == state # stored_state

\* The platform's token endpoint accepts a valid code sent by a configured
\* client.
ExchangeSucceeds(code, client_id, client_secret) ==
    code = "valid" /\ Truthy(client_id) /\ Truthy(client_secret)

\* creds_data, as json.dumps writes it: the token set without its expiry.
CredsDataNoRefreshToken(token, refresh_token, client_id, client_secret) ==
    [kind |-> "json", token |-> token, refresh_token |-> "",
     token_uri |-> TOKEN_URI, client_id |-> client_id,
     client_secret |-> client_secret, scopes |-> SCOPES]

CredsData(token, refresh_token, client_id, client_secret) ==
    [kind |-> "json", token |-> token, refresh_token |-> refresh_token,
     token_uri |-> TOKEN_URI, client_id |-> client_id,
     client_secret |-> client_secret, scopes |-> SCOPES]

\* Setting.set('blogger_credentials', json.dumps(creds_data))
StoreCredentialsClearingState(rows, creds_data) ==
    SettingSet(SettingSet(rows, "blogger_credentials", creds_data),
               "blogger_oauth_state", None)

StoreCredentials(rows, creds_data) == SettingSet(rows, "blogger_credentials", creds_data)

handle_callback(code, state) ==
    LET stored_state == Get("blogger_oauth_state")
        client_id == Get("blogger_client_id")
        client_secret == Get("blogger_client_secret")
        call == [Call("handle_callback", FALSE, "") EXCEPT
                    !.state = state, !.code = code]
    IN  /\ IF StateMismatch(state, stored_state)
           THEN /\ lastCall' = [call EXCEPT !.err = "Invalid OAuth state"]
                /\ UNCHANGED <<settings, issued>>
           ELSE IF ~ExchangeSucceeds(code, client_id, client_secret)
           THEN /\ lastCall' = [call EXCEPT !.err = "fetch_token failed",
                                            !.exchanges = 1]
                /\ UNCHANGED <<settings, issued>>
           ELSE /\ issued < MaxTokens
                /\ issued' = issued + 1
                /\ settings' = StoreCredentials(settings,
                                  CredsData(issued + 1, "refresh-1",
                                            client_id, client_secret))
                /\ lastCall' = [call EXCEPT !.ok = TRUE, !.exchanges = 1]
        /\ UNCHANGED <<storeVars, backup, backupOf, expiredTokens, revoked, webVars>>

\* Credentials(...) as get_credentials builds it: no expiry is passed, so the
\* object's expiry is None.
Credentials(creds_data) ==
    [token |-> creds_data.token, refresh_token |-> creds_data.refresh_token,
     token_uri |-> creds_data.token_uri, client_id |-> creds_data.client_id,
     client_secret |-> creds_data.client_secret, scopes |-> creds_data.scopes,
     expiry |-> None]

\* credentials.expired (google.auth): False for an object whose expiry is
\* None, otherwise whether the expiry has passed.
Expired(credentials) ==
    credentials.expiry # None /\ credentials.token \in expiredTokens

get_credentials ==
    LET creds_json == Get("blogger_credentials")
        call == Call("get_credentials", TRUE, "")
    IN  /\ IF ~Truthy(creds_json)
           THEN /\ lastCall' = [call EXCEPT !.err = "None"]
                /\ UNCHANGED <<settings, issued>>
           ELSE LET credentials == Credentials(creds_json)
                    atCall == [call EXCEPT
                                 !.expiredAtCall = creds_json.token \in expiredTokens]
                IN  IF ~Expired(credentials)
                    THEN /\ lastCall' = atCall
                         /\ UNCHANGED <<settings, issued>>
                    ELSE IF revoked
                    THEN /\ lastCall' = [atCall EXCEPT !.ok = FALSE,
                                            !.err = "RefreshError", !.refreshes = 1]
                         /\ UNCHANGED <<settings, issued>>
                    ELSE /\ issued < MaxTokens
                         /\ issued' = issued + 1
                         /\ settings' = SettingSet(settings, "blogger_credentials",
                                           CredsData(issued + 1, credentials.refresh_token,
                                                     credentials.client_id,
                                                     credentials.client_secret))
                         /\ lastCall' = [atCall EXCEPT !.refreshes = 1]
        /\ UNCHANGED <<storeVars, backup, backupOf, expiredTokens, revoked, webVars>>

\* The platform: an issued access token expires; the user revokes the grant.
TokenExpires ==
    /\ \E t \in (1..issued) \ expiredTokens : expiredTokens' = expiredTokens \cup {t}
    /\ lastCall' = Call("token_expires", TRUE, "")
    /\ UNCHANGED <<settings, storeVars, backup, backupOf, issued, revoked, webVars>>

RevokeGrant ==
    /\ ~revoked
    /\ issued > 0
    /\ revoked' = TRUE
    /\ lastCall' = Call("revoke_grant", TRUE, "")
    /\ UNCHANGED <<settings, storeVars, backup, backupOf, issued, expiredTokens, webVars>>

-----------------------------------------------------------------------------
(* Python str operations on sequences of characters *)

RECURSIVE SplitFrom(_, _, _, _)
SplitFrom(s, i, cur, acc) ==
    IF i > Len(s) THEN Append(acc, cur)
    ELSE IF s[i] = "," THEN SplitFrom(s, i + 1, <<>>, Append(acc, cur))
    ELSE SplitFrom(s, i + 1, Append(cur, s[i]), acc)

\* s.split(',')
Split(s) == SplitFrom(s, 1, <<>>, <<>>)

RECURSIVE LStrip(_)
LStrip(s) == IF s # <<>> /\ Head(s) = " " THEN LStrip(Tail(s)) ELSE s

RECURSIVE RStrip(_)
RStrip(s) ==
    IF s # <<>> /\ s[Len(s)] = " " THEN RStrip(SubSeq(s, 1, Len(s) - 1)) ELSE s

\* s.strip()
Strip(s) == RStrip(LStrip(s))

\* [x.strip() for x in names.split(',') if x.strip()]
StrippedNonEmpty(names) ==
    LET parts == Split(names)
        kept == SelectSeq(parts, LAMBDA x : Strip(x) # <<>>)
    IN  [i \in 1..Len(kept) |-> Strip(kept[i])]

-----------------------------------------------------------------------------
(* models.py: AvailableTag and AvailableCategory *)

Named(rows, name) == {r \in rows : r.name = name}

\* The column default of usage_count.
DefaultUsageCount == 0

add_tag(rows, name, description) ==
    IF Named(rows, Strip(name)) = {}
    THEN rows \cup {[name |-> Strip(name), description |-> description,
                     usage_count |-> DefaultUsageCount]}
    ELSE rows

RECURSIVE IncrementEach(_, _, _)
IncrementEach(rows, tag_list, i) ==
    IF i > Len(tag_list) THEN rows
    ELSE LET tag_name == tag_list[i]
             found == Named(rows, tag_name)
         IN  IF found # {}
             THEN LET tag == CHOOSE r \in found : TRUE
                  IN  IncrementEach((rows \ {tag}) \cup
                          {[tag EXCEPT !.usage_count = tag.usage_count + 1]},
                          tag_list, i + 1)
             ELSE IncrementEach(add_tag(rows, tag_name, ""), tag_list, i + 1)

increment_usage(rows, tag_names) ==
    IF tag_names = <<>> THEN rows
    ELSE IncrementEach(rows, StrippedNonEmpty(tag_names), 1)

add_category(rows, name, description) ==
    IF Named(rows, Strip(name)) = {}
    THEN rows \cup {[name |-> Strip(name), description |-> description,
                     usage_count |-> DefaultUsageCount]}
    ELSE rows

RECURSIVE IncrementEachCategory(_, _, _)
IncrementEachCategory(rows, category_list, i) ==
    IF i > Len(category_list) THEN rows
    ELSE LET category_name == category_list[i]
             found == Named(rows, category_name)
         IN  IF found # {}
             THEN LET category == CHOOSE r \in found : TRUE
                  IN  IncrementEachCategory((rows \ {category}) \cup
                          {[category EXCEPT !.usage_count = category.usage_count + 1]},
                          category_list, i + 1)
             ELSE IncrementEachCategory(add_category(rows, category_name, ""),
                                        category_list, i + 1)

category_increment_usage(rows, category_names) ==
    IF category_names = <<>> THEN rows
    ELSE IncrementEachCategory(rows, StrippedNonEmpty(category_names), 1)

\* The usage count seen for a name; 0 when there is no such row.
UsageCount(rows, name) ==
    IF Named(rows, name) = {} THEN 0
    ELSE (CHOOSE r \in Named(rows, name) : TRUE).usage_count

WithinCount(rows) == \A r \in rows : r.usage_count <= MaxCount

-----------------------------------------------------------------------------
(* models.py: Post *)

\* datetime.utcnow()
Now == [kind |-> "datetime", at |-> "utcnow"]

PostIds == {p.id : p \in posts}

\* The id the database gives a new row: one more than the largest in use.
RECURSIVE MaxOf(_)
MaxOf(S) ==
    IF S = {} THEN 0
    ELSE LET x == CHOOSE y \in S : TRUE
             m == MaxOf(S \ {x})
         IN  IF x > m THEN x ELSE m

NewId(rows) == MaxOf({p.id : p \in rows}) + 1

PostWithId(id) == CHOOSE p \in posts : p.id = id

\* Post(...): the columns not given take their defaults.
Post(id, title, content, status, blog_target, external_id, post_tags, categories) ==
    [id |-> id, title |-> title, content |-> content, status |-> status,
     created_date |-> Now, published_date |-> None, blog_target |-> blog_target,
     external_id |-> external_id, tags |-> post_tags, categories |-> categories]

-----------------------------------------------------------------------------
(* api/publishers.py: the WordPress adapter *)

\* A JSON number of a response body, and str() of it.
JsonInt(digits) == [kind |-> "int", digits |-> digits]
PyStr(v) == IF v.kind = "int" THEN Str(v.digits) ELSE v

StatusCodes == {201, 200, 500}
\* response.text
ResponseText(c) == CASE c = 201 -> "created" [] c = 200 -> "ok" [] OTHER -> "error"

Responses ==
    {[status_code |-> c, id |-> JsonInt("7"), text |-> ResponseText(c)] : c \in StatusCodes}

\* response.status_code == 201
CreatedOrOk(response) == response.status_code \in {200, 201}

Created(response) == response.status_code = 201

\* all([wp_url, wp_user, wp_password])
AllOfUrlAndUser(wp_url, wp_user, wp_password) == Truthy(wp_url) /\ Truthy(wp_user)

AllOf(wp_url, wp_user, wp_password) ==
    Truthy(wp_url) /\ Truthy(wp_user) /\ Truthy(wp_password)

\* The outcome of publish_to_wordpress(post) when the platform answers the
\* POST, if one is issued, with response.
publish_to_wordpress(post, response) ==
    LET wp_url == Get("wordpress_url")
        wp_user == Get("wordpress_username")
        wp_password == Get("wordpress_password")
    IN  IF ~AllOf(wp_url, wp_user, wp_password)
        THEN [ok |-> FALSE, err |-> "WordPress credentials not configured",
              http |-> 0, id |-> None, text |-> ""]
        ELSE IF Created(response)
        THEN [ok |-> TRUE, err |-> "", http |-> 1, id |-> response.id, text |-> ""]
        ELSE [ok |-> FALSE, err |-> "WordPress API error", http |-> 1, id |-> None,
              text |-> response.text]

(* api/publishers.py: the Blogger adapter *)

\* [tag.strip() for tag in post.tags.split(',')], sent when post.tags is not
\* empty; no labels are sent otherwise.
Labels(post_tags) ==
    IF post_tags = <<>> THEN <<>>
    ELSE [i \in 1..Len(Split(post_tags)) |-> Strip(Split(post_tags)[i])]

\* What the platform does with posts().insert(...).execute(): it returns the
\* post it made, or the client raises HttpError.
BloggerAnswers == {[ok |-> TRUE, id |-> Str("b-1")], [ok |-> FALSE, id |-> None]}

\* publish_to_blogger(post, credentials), for the post of the id given.
publish_to_blogger(post_id, answer) ==
    LET post == PostWithId(post_id)
    IN  /\ post_id \in PostIds
        /\ lastCall' = [Call("publish_to_blogger", answer.ok,
                              IF answer.ok THEN "" ELSE "Blogger API error") EXCEPT
                          !.id = post_id, !.adapter = "blogger", !.http = 1,
                          !.labels = Labels(post.tags), !.value = answer.id]
        /\ UNCHANGED <<settings, storeVars, backup, backupOf, platformVars, webVars>>

-----------------------------------------------------------------------------
(* routes/posts.py *)

\* The column default of status.
DefaultStatusScheduled == "scheduled"

DefaultStatus == "draft"

\* The four assignments save_post makes to a post that exists.
UpdatedPostRetargeted(post, data) ==
    [post EXCEPT !.title = data.title,
                 !.content = data.content,
                 !.tags = data.tags,
                 !.categories = data.categories,
                 !.blog_target = SettingGet("blog_type", None)]

UpdatedPostAsDraft(post, data) ==
    [post EXCEPT !.title = data.title,
                 !.content = data.content,
                 !.tags = data.tags,
                 !.categories = data.categories,
                 !.status = DefaultStatus,
                 !.published_date = None,
                 !.external_id = None]

UpdatedPost(post, data) ==
    [post EXCEPT !.title = data.title,
                 !.content = data.content,
                 !.tags = data.tags,
                 !.categories = data.categories]

\* save_post: data.id is 0 when the request carries no id.
save_post(data) ==
    LET call == [Call("save_post", TRUE, "") EXCEPT !.tags = data.tags]
    IN  /\ IF data.id # 0 /\ data.id \notin PostIds
           THEN \* Post.query.get returns None: the assignment raises
                /\ lastCall' = [call EXCEPT !.ok = FALSE, !.err = "AttributeError",
                                            !.id = data.id]
                /\ UNCHANGED storeVars
           ELSE LET post == IF data.id # 0
                            THEN UpdatedPost(PostWithId(data.id), data)
                            ELSE Post(NewId(posts), data.title, data.content,
                                      DefaultStatus, Get("blog_type"), None,
                                      data.tags, data.categories)
                IN  /\ posts' = {p \in posts : p.id # post.id} \cup {post}
                    /\ tags' = increment_usage(tags, post.tags)
                    /\ cats' = category_increment_usage(cats, post.categories)
                    /\ Cardinality(posts') <= MaxPosts
                    /\ post.id <= MaxPostId
                    /\ WithinCount(tags') /\ WithinCount(cats')
                    /\ lastCall' = [call EXCEPT !.id = post.id]
        /\ UNCHANGED <<settings, backup, backupOf, platformVars, webVars>>

\* save_post when a persistence call of the request raises (the database is
\* locked, or a concurrent request has inserted the name being added): stage
\* names the call that raises, the first flush or commit made for the tags,
\* for the categories, or the final commit when neither stage had rows to
\* write.  What the earlier commits of the request wrote stays written:
\* increment_usage commits the whole session, the post included.
Stages == {"tags", "categories", "final"}

save_post_raising(data, stage) ==
    LET call == [Call("save_post", FALSE, "OperationalError") EXCEPT
                    !.tags = data.tags, !.id = data.id]
        post == IF data.id # 0
                THEN UpdatedPost(PostWithId(data.id), data)
                ELSE Post(NewId(posts), data.title, data.content,
                          DefaultStatus, Get("blog_type"), None,
                          data.tags, data.categories)
    IN  /\ data.id = 0 \/ data.id \in PostIds
        /\ CASE stage = "tags" ->
                  /\ data.tags # <<>>
                  /\ UNCHANGED storeVars
             [] stage = "categories" ->
                  /\ data.categories # <<>>
                  /\ IF data.tags = <<>>
                     THEN UNCHANGED storeVars
                     ELSE /\ posts' = {p \in posts : p.id # post.id} \cup {post}
                          /\ tags' = increment_usage(tags, post.tags)
                          /\ UNCHANGED cats
                          /\ Cardinality(posts') <= MaxPosts
                          /\ post.id <= MaxPostId
                          /\ WithinCount(tags')
             [] stage = "final" ->
                  /\ data.tags = <<>> /\ data.categories = <<>>
                  /\ UNCHANGED storeVars
        /\ lastCall' = call
        /\ UNCHANGED <<settings, backup, backupOf, platformVars, webVars>>

\* The branch on blog_type of publish_post, with the outcome of the adapter
\* it calls.
PlatformResultByTarget(blog_type, post, response) ==
    IF post.blog_target = Str("blogger")
    THEN [ok |-> TRUE, err |-> "", http |-> 0, id |-> Str("blogger_post_id"), text |-> ""]
    ELSE IF post.blog_target = Str("wordpress")
    THEN publish_to_wordpress(post, response)
    ELSE [ok |-> FALSE, err |-> "No blog platform configured", http |-> 0, id |-> None,
          text |-> ""]

PlatformResult(blog_type, post, response) ==
    IF blog_type = Str("blogger")
    THEN \* the placeholder: no adapter is called
         [ok |-> TRUE, err |-> "", http |-> 0, id |-> Str("blogger_post_id"), text |-> ""]
    ELSE IF blog_type = Str("wordpress")
    THEN publish_to_wordpress(post, response)
    ELSE [ok |-> FALSE, err |-> "No blog platform configured", http |-> 0, id |-> None,
          text |-> ""]

\* The rows after the try block of publish_post: the three fields are
\* assigned and committed once the platform's id is there; an exception
\* leaves the session uncommitted.
PostsAfterPublishMarkingFirst(rows, post, result) ==
    (rows \ {post}) \cup
        {[post EXCEPT !.status = "published",
                      !.published_date = Now,
                      !.external_id = IF result.ok THEN PyStr(result.id) ELSE None]}

PostsAfterPublish(rows, post, result) ==
    IF result.ok
    THEN (rows \ {post}) \cup
            {[post EXCEPT !.status = "published",
                          !.published_date = Now,
                          !.external_id = PyStr(result.id)]}
    ELSE rows

\* publish_post: post_id is 0 when the request carries no id; response is the
\* platform's answer to the POST, if one is issued.
publish_post(post_id, response) ==
    LET call == [Call("publish_post", FALSE, "") EXCEPT !.id = post_id]
        blog_type == Get("blog_type")
    IN  /\ IF post_id = 0
           THEN /\ lastCall' = [call EXCEPT !.err = "Post ID required"]
                /\ UNCHANGED posts
           ELSE IF post_id \notin PostIds
           THEN /\ lastCall' = [call EXCEPT !.err = "Post not found"]
                /\ UNCHANGED posts
           ELSE LET post == PostWithId(post_id)
                    result == PlatformResult(blog_type, post, response)
                    called == [call EXCEPT
                                 !.http = result.http,
                                 !.text = result.text,
                                 !.status_code = IF result.http = 1
                                                 THEN response.status_code ELSE 0,
                                 !.adapter = IF blog_type = Str("wordpress")
                                             THEN "wordpress" ELSE ""]
                IN  /\ posts' = PostsAfterPublish(posts, post, result)
                    /\ lastCall' = IF result.ok
                                   THEN [called EXCEPT !.ok = TRUE]
                                   ELSE [called EXCEPT !.err = result.err]
        /\ UNCHANGED <<settings, tags, cats, backup, backupOf, platformVars, webVars>>

\* publish_post as the steps of one of several requests handled at once.
Requests == 1..MaxRequests

Idle == [pc |-> "idle", id |-> 0, external_id |-> None]

\* if not post_id / if not post
NotFoundOrInFlight(post_id) ==
    post_id \notin PostIds \/ \E r \in Requests : inFlight[r].id = post_id

NotFound(post_id) == post_id \notin PostIds

\* Post.query.get(post_id): the request holds the row it has read.
publish_post_read(r, post_id) ==
    LET call == [Call("publish_post_read", FALSE, "") EXCEPT !.id = post_id]
    IN  /\ inFlight[r].pc = "idle"
        /\ IF post_id = 0
           THEN /\ lastCall' = [call EXCEPT !.err = "Post ID required"]
                /\ UNCHANGED inFlight
           ELSE IF NotFound(post_id)
           THEN /\ lastCall' = [call EXCEPT !.err = "Post not found"]
                /\ UNCHANGED inFlight
           ELSE /\ inFlight' = [inFlight EXCEPT ![r] = [Idle EXCEPT !.pc = "read",
                                                                    !.id = post_id]]
                /\ lastCall' = [call EXCEPT !.ok = TRUE]
        /\ UNCHANGED <<settings, storeVars, backup, backupOf, platformVars, received>>

\* The branch on blog_type and the adapter's call; response is the platform's
\* answer to the POST, if one is issued.
publish_post_call_marking(r, response) ==
    LET post_id == inFlight[r].id
        post == PostWithId(post_id)
        result == PlatformResult(Get("blog_type"), post, response)
        call == [Call("publish_post_call", result.ok, result.err) EXCEPT
                    !.id = post_id, !.http = result.http]
    IN  /\ inFlight[r].pc = "read"
        /\ received' = IF result.http = 1 THEN received \cup {<<r, post_id>>}
                       ELSE received
        /\ inFlight' = [inFlight EXCEPT ![r] =
                          IF result.ok
                          THEN [pc |-> "called", id |-> post_id,
                                external_id |-> PyStr(result.id)]
                          ELSE Idle]
        /\ posts' = IF result.ok
                    THEN (posts \ {post}) \cup {[post EXCEPT !.status = "published"]}
                    ELSE posts
        /\ lastCall' = call
        /\ UNCHANGED <<settings, tags, cats, backup, backupOf, platformVars>>

publish_post_call(r, response) ==
    LET post_id == inFlight[r].id
        result == PlatformResult(Get("blog_type"), PostWithId(post_id), response)
        call == [Call("publish_post_call", result.ok, result.err) EXCEPT
                    !.id = post_id, !.http = result.http]
    IN  /\ inFlight[r].pc = "read"
        /\ received' = IF result.http = 1 THEN received \cup {<<r, post_id>>}
                       ELSE received
        /\ inFlight' = [inFlight EXCEPT ![r] =
                          IF result.ok
                          THEN [pc |-> "called", id |-> post_id,
                                external_id |-> PyStr(result.id)]
                          ELSE Idle]
        /\ lastCall' = call
        /\ UNCHANGED <<settings, storeVars, backup, backupOf, platformVars>>

\* The three assignments and db.session.commit().
publish_post_commit(r) ==
    LET post_id == inFlight[r].id
        post == PostWithId(post_id)
    IN  /\ inFlight[r].pc = "called"
        /\ posts' = (posts \ {post}) \cup
                        {[post EXCEPT !.status = "published",
                                      !.published_date = Now,
                                      !.external_id = inFlight[r].external_id]}
        /\ inFlight' = [inFlight EXCEPT ![r] = Idle]
        /\ lastCall' = [Call("publish_post_commit", TRUE, "") EXCEPT !.id = post_id]
        /\ UNCHANGED <<settings, tags, cats, backup, backupOf, platformVars, received>>

delete_post(post_id) ==
    /\ IF post_id \in PostIds
       THEN /\ posts' = posts \ {PostWithId(post_id)}
            /\ lastCall' = [Call("delete_post", TRUE, "") EXCEPT !.id = post_id]
       ELSE /\ lastCall' = [Call("delete_post", FALSE, "404") EXCEPT !.id = post_id]
            /\ UNCHANGED posts
    /\ UNCHANGED <<settings, tags, cats, backup, backupOf, platformVars, webVars>>

-----------------------------------------------------------------------------
(* routes/tags.py *)

\* add_tag: the name is stripped; AvailableTag.add_tag returns the row of that
\* name when there is one.
route_add_tag(name, description) ==
    LET tag_name == Strip(name)
        call == [Call("add_tag", TRUE, "") EXCEPT !.name = tag_name]
    IN  /\ IF tag_name = <<>>
           THEN /\ lastCall' = [call EXCEPT !.ok = FALSE, !.err = "Tag name is required"]
                /\ UNCHANGED tags
           ELSE /\ tags' = add_tag(tags, tag_name, description)
                /\ lastCall' = [call EXCEPT
                                  !.count = UsageCount(add_tag(tags, tag_name, description),
                                                       tag_name)]
        /\ UNCHANGED <<settings, posts, cats, backup, backupOf, platformVars, webVars>>

\* delete_tag: the row is named by its id in the URL; names are unique, so the
\* row is identified here by its name.
route_delete_tag(name) ==
    LET call == [Call("delete_tag", TRUE, "") EXCEPT !.name = name]
    IN  /\ IF Named(tags, name) = {}
           THEN /\ lastCall' = [call EXCEPT !.ok = FALSE, !.err = "404"]
                /\ UNCHANGED tags
           ELSE /\ tags' = tags \ Named(tags, name)
                /\ lastCall' = [call EXCEPT !.count = UsageCount(tags, name)]
        /\ UNCHANGED <<settings, posts, cats, backup, backupOf, platformVars, webVars>>

route_add_category(name, description) ==
    LET category_name == Strip(name)
        call == [Call("add_category", TRUE, "") EXCEPT !.name = category_name]
    IN  /\ IF category_name = <<>>
           THEN /\ lastCall' = [call EXCEPT !.ok = FALSE,
                                            !.err = "Category name is required"]
                /\ UNCHANGED cats
           ELSE /\ cats' = add_category(cats, category_name, description)
                /\ lastCall' = [call EXCEPT
                                  !.count = UsageCount(add_category(cats, category_name,
                                                                    description),
                                                       category_name)]
        /\ UNCHANGED <<settings, posts, tags, backup, backupOf, platformVars, webVars>>

route_delete_category(name) ==
    LET call == [Call("delete_category", TRUE, "") EXCEPT !.name = name]
    IN  /\ IF Named(cats, name) = {}
           THEN /\ lastCall' = [call EXCEPT !.ok = FALSE, !.err = "404"]
                /\ UNCHANGED cats
           ELSE /\ cats' = cats \ Named(cats, name)
                /\ lastCall' = [call EXCEPT !.count = UsageCount(cats, name)]
        /\ UNCHANGED <<settings, posts, tags, backup, backupOf, platformVars, webVars>>

-----------------------------------------------------------------------------
(* utils.py: backup and restore *)

NoBackup == [kind |-> "none"]

\* datetime.isoformat()
IsoFormat(d) == Str("iso-utcnow")

\* The dict backup_database writes for a post.
PostDict(post) ==
    [title |-> post.title, content |-> post.content, status |-> post.status,
     created_date |-> IsoFormat(post.created_date),
     published_date |-> IF post.published_date # None
                        THEN IsoFormat(post.published_date) ELSE None,
     blog_target |-> post.blog_target, external_id |-> post.external_id,
     tags |-> post.tags, categories |-> post.categories]

\* Post.query.all(), in id order, as dicts.
RECURSIVE PostDicts(_)
PostDicts(rows) ==
    IF rows = {} THEN <<>>
    ELSE LET last == CHOOSE p \in rows : \A q \in rows : q.id <= p.id
         IN  Append(PostDicts(rows \ {last}), PostDict(last))

\* The dict backup_database writes for a tag or a category.
NameDict(row) ==
    [name |-> row.name, description |-> row.description,
     usage_count |-> row.usage_count, created_date |-> IsoFormat(Now)]

\* key.endswith(suffix), over the keys the program writes.
EndsWith(key, suffix) ==
    <<key, suffix>> \in {<<"wordpress_password", "_password">>,
                         <<"blogger_client_secret", "_secret">>}

\* The settings exported: every row whose key ends in neither suffix.
ExportedSettings ==
    {r \in settings : ~EndsWith(r.key, "_password") /\ ~EndsWith(r.key, "_secret")}

backup_database ==
    /\ backup' = [kind |-> "backup",
                  posts |-> PostDicts(posts),
                  tags |-> {NameDict(t) : t \in tags},
                  categories |-> {NameDict(c) : c \in cats},
                  settings |-> ExportedSettings]
    /\ backupOf' = [kind |-> "store", tags |-> tags, cats |-> cats,
                    nposts |-> Cardinality(posts)]
    /\ lastCall' = Call("backup_database", TRUE, "")
    /\ UNCHANGED <<settings, storeVars, platformVars, webVars>>

\* A row restored from a dict: created_date is not read.
RestoredRowNoCount(d) ==
    [name |-> d.name, description |-> d.description,
     usage_count |-> DefaultUsageCount]

RestoredRow(d) ==
    [name |-> d.name, description |-> d.description, usage_count |-> d.usage_count]

\* The merge by name of the tags (or categories) of a backup into the rows.
RECURSIVE RestoreNamesSumming(_, _)
RestoreNamesSumming(rows, dicts) ==
    IF dicts = {} THEN rows
    ELSE LET d == CHOOSE x \in dicts : TRUE
             found == Named(rows, d.name)
         IN  RestoreNamesSumming(
                 IF found = {} THEN rows \cup {RestoredRow(d)}
                 ELSE LET row == CHOOSE r \in found : TRUE
                      IN  (rows \ {row}) \cup
                            {[row EXCEPT !.usage_count = row.usage_count + d.usage_count]},
                 dicts \ {d})

RECURSIVE RestoreNames(_, _)
RestoreNames(rows, dicts) ==
    IF dicts = {} THEN rows
    ELSE LET d == CHOOSE x \in dicts : TRUE
         IN  RestoreNames(IF Named(rows, d.name) = {}
                          THEN rows \cup {RestoredRow(d)} ELSE rows,
                          dicts \ {d})

\* The posts of a backup appended to the rows.
RECURSIVE RestorePosts(_, _, _)
RestorePosts(rows, dicts, i) ==
    IF i > Len(dicts) THEN rows
    ELSE LET d == dicts[i]
         IN  RestorePosts(rows \cup {Post(NewId(rows), d.title, d.content, d.status,
                                          d.blog_target, d.external_id,
                                          d.tags, d.categories)},
                          dicts, i + 1)

RECURSIVE RestoreSettings(_, _)
RestoreSettings(rows, exported) ==
    IF exported = {} THEN rows
    ELSE LET r == CHOOSE x \in exported : TRUE
         IN  RestoreSettings(SettingSet(rows, r.key, r.value), exported \ {r})

restore_database ==
    /\ IF backup = NoBackup
       THEN /\ lastCall' = Call("restore_database", FALSE, "Backup file not found")
            /\ UNCHANGED <<settings, storeVars>>
       ELSE /\ tags' = RestoreNames(tags, backup.tags)
            /\ cats' = RestoreNames(cats, backup.categories)
            /\ posts' = RestorePosts(posts, backup.posts, 1)
            /\ settings' = RestoreSettings(settings, backup.settings)
            /\ Cardinality(posts') <= MaxPosts
            /\ \A p \in posts' : p.id <= MaxPostId
            /\ lastCall' = [Call("restore_database", TRUE, "") EXCEPT
                              !.intoEmpty = (posts = {} /\ tags = {} /\ cats = {})]
    /\ UNCHANGED <<backup, backupOf, platformVars, webVars>>

(* app.py *)

\* create_app on a new instance directory: db.create_all() makes empty tables;
\* the backup files written earlier are still there.
create_app ==
    /\ settings' = {}
    /\ posts' = {}
    /\ tags' = {}
    /\ cats' = {}
    /\ lastCall' = Call("create_app", TRUE, "")
    /\ UNCHANGED <<backup, backupOf, platformVars, webVars>>

-----------------------------------------------------------------------------
(* Specifications *)

Init ==
    /\ settings = {}
    /\ posts = {}
    /\ tags = {}
    /\ cats = {}
    /\ backup = NoBackup
    /\ backupOf = NoBackup
    /\ issued = 0
    /\ expiredTokens = {}
    /\ revoked = FALSE
    /\ inFlight = [r \in Requests |-> Idle]
    /\ received = {}
    /\ lastCall = NoCall

\* The credential manager with the Blogger settings form.
NextAuth ==
    \/ \E f2 \in FormValues("client-id"), f3 \in FormValues("client-secret") :
          settings_post(Str("blogger"), Str("blog-1"), f2, f3)
    \/ \E state \in StateTokens : get_auth_url(state)
    \/ \E code \in Codes, state \in StateTokens \cup {None} : handle_callback(code, state)
    \/ get_credentials
    \/ TokenExpires
    \/ RevokeGrant

SpecAuth == Init /\ [][NextAuth]_vars

TagInputs == {<<>>, <<"a">>, <<"a", ",", " ", "b", " ", ",", "b">>}
CategoryInputs == {<<>>, <<"c">>}

PostData(ids, tagInputs, categoryInputs) ==
    [id : ids, title : {"Title"}, content : {"Content"},
     tags : tagInputs, categories : categoryInputs]

\* The content store with backup and restore.
NextBackup ==
    \/ \E data \in PostData({0} \cup PostIds, {<<>>, <<"a">>}, {<<"c">>}) : save_post(data)
    \/ backup_database
    \/ restore_database
    \/ create_app

SpecBackup == Init /\ [][NextBackup]_vars

\* The tag and category counters under saves and deletions.
NextTags ==
    \/ \E data \in PostData({0} \cup PostIds, TagInputs, CategoryInputs) : save_post(data)
    \/ \E id \in PostIds : delete_post(id)

SpecTags == Init /\ [][NextTags]_vars

\* The WordPress adapter under every combination of its three settings.
NextWordpress ==
    \/ \E f1 \in FormValues("https://blog.example"), f2 \in FormValues("user"),
          f3 \in FormValues("password") :
          settings_post(Str("wordpress"), f1, f2, f3)
    \/ \E data \in PostData({0}, {<<"a">>}, {<<>>}) : save_post(data)
    \/ \E id \in {0} \cup PostIds, response \in Responses : publish_post(id, response)

SpecWordpress == Init /\ [][NextWordpress]_vars

\* Publishing, with the platform chosen in the settings form, and the backup.
NextPublish ==
    \/ \E blog_type \in {Str("blogger"), Str("wordpress")} :
          IF blog_type = Str("blogger")
          THEN settings_post(blog_type, Str("blog-1"), Str("client-id"),
                             Str("client-secret"))
          ELSE settings_post(blog_type, Str("https://blog.example"), Str("user"),
                             Str("password"))
    \/ \E data \in PostData({0}, {<<"a">>}, {<<>>}) : save_post(data)
    \/ \E id \in {0} \cup PostIds, response \in Responses : publish_post(id, response)
    \/ backup_database
    \/ restore_database

SpecPublish == Init /\ [][NextPublish]_vars

\* The settings a backup exports, with the credential manager.
NextSecrets ==
    \/ \E f2 \in FormValues("client-id"), f3 \in FormValues("client-secret") :
          settings_post(Str("blogger"), Str("blog-1"), f2, f3)
    \/ \E state \in StateTokens : get_auth_url(state)
    \/ \E code \in Codes, state \in StateTokens \cup {None} : handle_callback(code, state)
    \/ backup_database

SpecSecrets == Init /\ [][NextSecrets]_vars

\* The tag and category management routes with saves and deletions of posts.
NextManage ==
    \/ \E data \in PostData({0} \cup PostIds, {<<>>, <<"a">>}, {<<>>, <<"c">>}) :
          save_post(data)
    \/ \E id \in PostIds : delete_post(id)
    \/ \E name \in {<<>>, <<"a">>, <<" ", "b">>} : route_add_tag(name, "")
    \/ \E name \in {<<"a">>, <<"b">>} : route_delete_tag(name)
    \/ \E name \in {<<" ">>, <<"c">>} : route_add_category(name, "")
    \/ \E name \in {<<"c">>} : route_delete_category(name)

SpecManage == Init /\ [][NextManage]_vars

\* Publish requests for WordPress handled at once.
NextRace ==
    \/ \E f3 \in {Str(""), Str("password")} :
          settings_post(Str("wordpress"), Str("https://blog.example"), Str("user"), f3)
    \/ \E data \in PostData({0}, {<<>>}, {<<>>}) : save_post(data)
    \/ \E r \in Requests, id \in {0, 1} : publish_post_read(r, id)
    \/ \E r \in Requests, response \in Responses : publish_post_call(r, response)
    \/ \E r \in Requests : publish_post_commit(r)
    \/ \E id \in {1}, answer \in BloggerAnswers : publish_to_blogger(id, answer)

SpecRace == Init /\ [][NextRace]_vars

\* Saves, with the persistence calls that can raise.
NextSave ==
    \/ \E data \in PostData({0} \cup PostIds, TagInputs, CategoryInputs) : save_post(data)
    \/ \E data \in PostData({0} \cup PostIds, TagInputs, CategoryInputs),
          stage \in Stages : save_post_raising(data, stage)

SpecSave == Init /\ [][NextSave]_vars

\* The settings store under its two calls.
SettingKeys == {"blog_type", "wordpress_url"}
SettingValues == {None, Str(""), Str("blogger"), Str("wordpress")}

NextSettings ==
    \/ \E key \in SettingKeys, default \in {None, Str("default")} :
          Setting_get(key, default)
    \/ \E key \in SettingKeys, value \in SettingValues : Setting_set(key, value)

SpecSettings == Init /\ [][NextSettings]_vars

\* The life of a post: saved, published, deleted, backed up and restored.
NextLifecycle ==
    \/ settings_post(Str("blogger"), Str("blog-1"), Str("client-id"), Str("client-secret"))
    \/ \E data \in PostData({0} \cup PostIds, {<<>>}, {<<>>}) : save_post(data)
    \/ \E id \in {1}, response \in Responses : publish_post(id, response)
    \/ \E id \in PostIds : delete_post(id)
    \/ backup_database
    \/ restore_database

SpecLifecycle == Init /\ [][NextLifecycle]_vars

\* The Blogger adapter applied to saved posts.
BloggerTagInputs ==
    {<<>>, <<"a">>, <<"a", ",", ",", "b">>, <<"a", ",", " ">>, <<" ", "a", ",", "b", " ">>}

NextBlogger ==
    \/ \E data \in PostData({0} \cup PostIds, BloggerTagInputs, {<<>>}) : save_post(data)
    \/ \E id \in PostIds, answer \in BloggerAnswers : publish_to_blogger(id, answer)

SpecBlogger == Init /\ [][NextBlogger]_vars

\* Posts saved, saved again, published and deleted while the platform chosen
\* in the settings form changes.
NextTarget ==
    \/ \E blog_type \in {Str("blogger"), Str("wordpress")} :
          IF blog_type = Str("blogger")
          THEN settings_post(blog_type, Str("blog-1"), Str("client-id"),
                             Str("client-secret"))
          ELSE settings_post(blog_type, Str("https://blog.example"), Str("user"),
                             Str("password"))
    \/ \E data \in PostData({0} \cup PostIds, {<<>>}, {<<>>}) : save_post(data)
    \/ \E id \in PostIds, response \in Responses : publish_post(id, response)
    \/ \E id \in PostIds : delete_post(id)

SpecTarget == Init /\ [][NextTarget]_vars

-----------------------------------------------------------------------------
(* Properties *)

ValueIn(rows, key) ==
    IF \E r \in rows : r.key = key
    THEN (CHOOSE r \in rows : r.key = key).value
    ELSE None

ABB == <<"a", ",", " ", "b", " ", ",", "b">>

Unauthorized(rows) == ~Truthy(ValueIn(rows, "blogger_credentials"))
Authorized(rows) == Truthy(ValueIn(rows, "blogger_credentials"))

\* C1: for every post, external_id is set exactly when published_date is.
C1_IdAndDateTogether ==
    \A p \in posts : (p.external_id # None) <=> (p.published_date # None)

\* C2: a handle_callback whose state differs from the stored state token fails
\* whatever the code, makes no token exchange and leaves the stored
\* credential as it was.
C2_WrongStateFails ==
    [][(lastCall'.op = "handle_callback"
        /\ lastCall'.state # ValueIn(settings, "blogger_oauth_state"))
          => /\ ~lastCall'.ok
             /\ lastCall'.exchanges = 0
             /\ ValueIn(settings', "blogger_credentials")
                  = ValueIn(settings, "blogger_credentials")]_vars

C2_Witness ==
    /\ lastCall.op = "handle_callback"
    /\ lastCall.code = "valid"
    /\ Truthy(Get("blogger_oauth_state"))
    /\ Truthy(lastCall.state)
    /\ lastCall.state # Get("blogger_oauth_state")
    /\ ~lastCall.ok
    /\ Truthy(Get("blogger_credentials"))

\* C3: get_credentials on a stored credential whose access token has expired
\* makes exactly one refresh call and stores a token that is not expired; on
\* one whose token has not expired it makes no refresh call and leaves the
\* stored blob as it was.
C3_RefreshOnceWhenExpired ==
    [][(lastCall'.op = "get_credentials" /\ Authorized(settings))
          => IF ValueIn(settings, "blogger_credentials").token \in expiredTokens
             THEN /\ lastCall'.refreshes = 1
                  /\ Authorized(settings')
                  /\ ValueIn(settings', "blogger_credentials").token
                        \notin expiredTokens'
             ELSE /\ lastCall'.refreshes = 0
                  /\ ValueIn(settings', "blogger_credentials")
                        = ValueIn(settings, "blogger_credentials")]_vars

\* C4: a successful handle_callback leaves the manager Authorized, and
\* get_credentials on an expired credential whose refresh cannot succeed
\* fails and leaves the manager Unauthorized.
C4_FailedRefreshUnauthorizes ==
    [][/\ (lastCall'.op = "handle_callback" /\ lastCall'.ok) => Authorized(settings')
       /\ (lastCall'.op = "get_credentials" /\ Authorized(settings) /\ revoked
           /\ ValueIn(settings, "blogger_credentials").token \in expiredTokens)
             => (~lastCall'.ok /\ Unauthorized(settings'))]_vars

\* C5: publish_to_wordpress fails with the configuration error and issues no
\* POST when one of its three settings is missing or empty; it issues its
\* POST when all three are present.
C5_NoPostUnlessConfigured ==
    lastCall.adapter = "wordpress"
        => IF /\ Truthy(Get("wordpress_url"))
              /\ Truthy(Get("wordpress_username"))
              /\ Truthy(Get("wordpress_password"))
           THEN lastCall.http = 1
           ELSE /\ ~lastCall.ok
                /\ lastCall.err = "WordPress credentials not configured"
                /\ lastCall.http = 0

C5_Witness ==
    /\ lastCall.adapter = "wordpress"
    /\ Truthy(Get("wordpress_url"))
    /\ Truthy(Get("wordpress_username"))
    /\ Get("wordpress_password") = Str("")
    /\ lastCall.http = 0
    /\ ~lastCall.ok

\* C6: a publish request for a post whose blog_target is unset fails, makes
\* no outbound call and leaves the post a draft with no external_id and no
\* published_date.
C6_UnsetTargetIsNotPublished ==
    (lastCall.op = "publish_post" /\ lastCall.id \in PostIds
     /\ PostWithId(lastCall.id).blog_target = None)
        => /\ ~lastCall.ok
           /\ lastCall.http = 0
           /\ PostWithId(lastCall.id).status = "draft"
           /\ PostWithId(lastCall.id).external_id = None
           /\ PostWithId(lastCall.id).published_date = None

\* C7: a save whose tag string is "a, b ,b" raises the count of a by 1 and
\* the count of b by 2, whatever the tag store held, and no tag name carries
\* surrounding whitespace.
C7_CountsEachOccurrence ==
    [][(lastCall'.op = "save_post" /\ lastCall'.ok /\ lastCall'.tags = ABB)
          => /\ UsageCount(tags', <<"a">>) = UsageCount(tags, <<"a">>) + 1
             /\ UsageCount(tags', <<"b">>) = UsageCount(tags, <<"b">>) + 2
             /\ \A t \in tags' : Strip(t.name) = t.name]_vars

\* C8: the settings of a backup hold no credential blob and no key with a
\* secret suffix.
C8_BackupHoldsNoSecret ==
    backup # NoBackup
        => \A r \in backup.settings :
              /\ r.key # "blogger_credentials"
              /\ r.value.kind # "json"
              /\ ~EndsWith(r.key, "_password")
              /\ ~EndsWith(r.key, "_secret")

NamesAndCounts(rows) == {<<r.name, r.usage_count>> : r \in rows}

\* C9: a backup restored into an empty store gives the tag and category names
\* and usage counts, and the number of posts, of the store the backup was
\* taken from.
C9_RoundTrip ==
    (lastCall.op = "restore_database" /\ lastCall.ok /\ lastCall.intoEmpty)
        => /\ NamesAndCounts(tags) = NamesAndCounts(backupOf.tags)
           /\ NamesAndCounts(cats) = NamesAndCounts(backupOf.cats)
           /\ Cardinality(posts) = backupOf.nposts

C9_Witness ==
    /\ lastCall.op = "restore_database" /\ lastCall.ok /\ lastCall.intoEmpty
    /\ posts # {}
    /\ \E t \in tags : t.usage_count > 0
    /\ cats # {}

\* C10: a restore that directly follows a restore of the same backup leaves
\* the tags and the categories as they were and adds as many posts as the
\* backup holds.
C10_Reimport ==
    [][(lastCall.op = "restore_database" /\ lastCall.ok
        /\ lastCall'.op = "restore_database" /\ lastCall'.ok)
          => /\ tags' = tags
             /\ cats' = cats
             /\ Cardinality(posts') = Cardinality(posts) + Len(backup.posts)]_vars

C10_Witness ==
    /\ lastCall.op = "restore_database" /\ lastCall.ok
    /\ lastCall.prevOp = "restore_database"
    /\ Len(backup.posts) > 0
    /\ \E t \in tags : t.usage_count > 0
    /\ Cardinality(posts) = 2 * Len(backup.posts)

\* C11: in no step does the usage count of a tag or category name that keeps
\* its row decrease, and a name whose row was deleted by the previous request
\* and is there again has at least the count it was deleted with.
C11_CountNeverDecreases ==
    [][/\ \A t \in tags : Named(tags', t.name) # {}
              => UsageCount(tags', t.name) >= t.usage_count
       /\ \A c \in cats : Named(cats', c.name) # {}
              => UsageCount(cats', c.name) >= c.usage_count
       /\ (lastCall.op = "delete_tag" /\ lastCall.ok /\ Named(tags', lastCall.name) # {})
              => UsageCount(tags', lastCall.name) >= lastCall.count
       /\ (lastCall.op = "delete_category" /\ lastCall.ok
           /\ Named(cats', lastCall.name) # {})
              => UsageCount(cats', lastCall.name) >= lastCall.count]_vars

\* C12: after two consecutive successful get_auth_url calls that returned
\* different states, a handle_callback with the first state fails and a
\* handle_callback that succeeds carries the second state.
C12_OnlyLatestStateAccepted ==
    [][(/\ lastCall.op = "get_auth_url" /\ lastCall.ok
        /\ lastCall.prevOp = "get_auth_url" /\ Truthy(lastCall.prevState)
        /\ lastCall.prevState # lastCall.state
        /\ lastCall'.op = "handle_callback")
          => /\ lastCall'.state = lastCall.prevState => ~lastCall'.ok
             /\ lastCall'.ok => lastCall'.state = lastCall.state]_vars

C12_Witness ==
    /\ lastCall.op = "handle_callback"
    /\ lastCall.prevOp = "get_auth_url"
    /\ lastCall.prevState = Str("s2")
    /\ Get("blogger_oauth_state") = Str("s2")
    /\ lastCall.state = Str("s1")
    /\ lastCall.code = "valid"
    /\ ~lastCall.ok
    /\ lastCall.err = "Invalid OAuth state"

\* C13: a get_auth_url made while the client id or the client secret is
\* missing or empty fails with the configuration error and leaves the
\* settings, the state token among them, as they were; one made while both
\* are set succeeds and stores the state it returns.
C13_StateStoredOnlyWhenConfigured ==
    [][lastCall'.op = "get_auth_url"
          => IF \/ ~Truthy(ValueIn(settings, "blogger_client_id"))
                \/ ~Truthy(ValueIn(settings, "blogger_client_secret"))
             THEN /\ ~lastCall'.ok
                  /\ lastCall'.err = "Blogger OAuth credentials not configured"
                  /\ settings' = settings
             ELSE /\ lastCall'.ok
                  /\ ValueIn(settings', "blogger_oauth_state") = lastCall'.state]_vars

C13_Witness ==
    /\ lastCall.op = "get_auth_url"
    /\ ~lastCall.ok
    /\ Truthy(Get("blogger_client_id"))
    /\ Get("blogger_client_secret") = Str("")
    /\ Truthy(Get("blogger_oauth_state"))

\* C14: a handle_callback that fails leaves the settings as they were; one
\* that succeeds has made its token exchange with a valid code and changes
\* the settings by one row, the credential blob, which holds the access
\* token, the refresh token, the token endpoint, the client id, the client
\* secret and the scopes.
C14_BlobWhollyOrNotAtAll ==
    [][lastCall'.op = "handle_callback"
          => IF lastCall'.ok
             THEN /\ lastCall'.exchanges = 1
                  /\ lastCall'.code = "valid"
                  /\ \A r \in settings' \ settings : r.key = "blogger_credentials"
                  /\ \A r \in settings \ settings' : r.key = "blogger_credentials"
                  /\ Cardinality({r \in settings' : r.key = "blogger_credentials"}) = 1
                  /\ LET blob == ValueIn(settings', "blogger_credentials")
                     IN  /\ blob.kind = "json"
                         /\ blob.token \in 1..MaxTokens
                         /\ blob.refresh_token # ""
                         /\ blob.token_uri = TOKEN_URI
                         /\ blob.client_id = ValueIn(settings, "blogger_client_id")
                         /\ Truthy(blob.client_id)
                         /\ blob.client_secret = ValueIn(settings, "blogger_client_secret")
                         /\ Truthy(blob.client_secret)
                         /\ blob.scopes = SCOPES
             ELSE settings' = settings]_vars

C14_Witness ==
    /\ lastCall.op = "handle_callback"
    /\ ~lastCall.ok
    /\ lastCall.exchanges = 1
    /\ lastCall.err = "fetch_token failed"
    /\ Authorized(settings)

\* C15: a publish request that has marked its post published has made the
\* outbound call of the adapter of the configured platform, and for Blogger
\* a credential is stored and a blog id is configured.
C15_PublishedOnlyAfterOutboundCall ==
    (lastCall.op = "publish_post" /\ lastCall.ok)
        => /\ lastCall.http = 1
           /\ Get("blog_type") = Str("blogger")
                 => (Authorized(settings) /\ Truthy(Get("blogger_blog_id")))

\* C16: a publish request that fails has made at most one outbound call and
\* leaves the posts, the tag counters and the category counters as they
\* were; a post that was a draft is still a draft with no external_id and no
\* published_date.
C16_FailedPublishChangesNothing ==
    [][(lastCall'.op = "publish_post" /\ ~lastCall'.ok)
          => /\ lastCall'.http <= 1
             /\ posts' = posts
             /\ tags' = tags
             /\ cats' = cats
             /\ \A p \in posts : (p.id = lastCall'.id /\ p.status = "draft")
                    => \E q \in posts' : /\ q.id = p.id
                                         /\ q.status = "draft"
                                         /\ q.external_id = None
                                         /\ q.published_date = None]_vars

C16_Witness ==
    /\ lastCall.op = "publish_post"
    /\ ~lastCall.ok
    /\ lastCall.http = 1
    /\ lastCall.err = "WordPress API error"
    /\ lastCall.id \in PostIds
    /\ PostWithId(lastCall.id).status = "draft"
    /\ UsageCount(tags, <<"a">>) > 0

\* C16, as stated: after every failed publish request for a post, that post
\* is a draft with no external_id and no published_date.
C16_FailedPublishLeavesDraft ==
    (lastCall.op = "publish_post" /\ ~lastCall.ok /\ lastCall.id \in PostIds)
        => /\ PostWithId(lastCall.id).status = "draft"
           /\ PostWithId(lastCall.id).external_id = None
           /\ PostWithId(lastCall.id).published_date = None

\* C17: no publish request is held back by another: the read of a post that
\* exists goes on to the adapter whatever the other requests are doing and
\* whatever the post's status, and the adapter, when WordPress is configured,
\* issues its POST.
C17_PublishIsNotGuarded ==
    [][/\ (lastCall'.op = "publish_post_read" /\ lastCall'.id \in PostIds)
             => lastCall'.ok
       /\ (lastCall'.op = "publish_post_call"
           /\ ValueIn(settings, "blog_type") = Str("wordpress")
           /\ Truthy(ValueIn(settings, "wordpress_password")))
             => lastCall'.http = 1]_vars

\* Two requests have each made the POST of the same post.
C17_Witness ==
    \E id \in PostIds :
       /\ {<<1, id>>, <<2, id>>} \subseteq received
       /\ lastCall.op = "publish_post_commit"
       /\ lastCall.prevOp = "publish_post_commit"
       /\ PostWithId(id).status = "published"

\* C18: a save_post request that fails leaves the posts, the tags and the
\* categories as they were.
C18_FailedSavePersistsNothing ==
    [][(lastCall'.op = "save_post" /\ ~lastCall'.ok)
          => (posts' = posts /\ tags' = tags /\ cats' = cats)]_vars

\* C19: Setting.get succeeds, changes nothing, and returns the default when
\* the key has no row; Setting.set leaves exactly one row for its key, which
\* holds the value set, and leaves the rows of every other key as they were;
\* a get that follows a set of the same key returns the value set; a get of
\* a key that has a row returns the value of that row.
C19_OverwriteSemantics ==
    [][/\ lastCall'.op = "Setting.get"
             => /\ lastCall'.ok
                /\ settings' = settings
                /\ (\A r \in settings : r.key # lastCall'.key)
                      => lastCall'.value = lastCall'.default
                /\ \A r \in settings : r.key = lastCall'.key
                      => lastCall'.value = r.value
       /\ lastCall'.op = "Setting.set"
             => /\ {r \in settings' : r.key = lastCall'.key}
                      = {[key |-> lastCall'.key, value |-> lastCall'.value]}
                /\ {r \in settings' : r.key # lastCall'.key}
                      = {r \in settings : r.key # lastCall'.key}
       /\ (lastCall.op = "Setting.set" /\ lastCall'.op = "Setting.get"
           /\ lastCall'.key = lastCall.key)
             => lastCall'.value = lastCall.value
       /\ \A r1, r2 \in settings' : r1.key = r2.key => r1 = r2]_vars

\* A get that returns the None a set has written over an earlier value,
\* while the other key keeps its row.
C19_Witness ==
    /\ lastCall.op = "Setting.get"
    /\ lastCall.prevOp = "Setting.set"
    /\ lastCall.key = "blog_type"
    /\ lastCall.default = Str("default")
    /\ lastCall.value = None
    /\ Get("wordpress_url") = Str("wordpress")
    /\ Cardinality(settings) = 2

\* C20: a save of a post that exists, with the tags and the categories the
\* post already has, leaves every tag count and every category count as it
\* was: the number of posts that reference a name has not changed.
C20_ResaveKeepsCounts ==
    [][(/\ lastCall'.op = "save_post" /\ lastCall'.ok
        /\ \E p \in posts, q \in posts' :
              /\ p.id = lastCall'.id /\ q.id = lastCall'.id
              /\ p.tags = q.tags /\ p.categories = q.categories)
          => /\ \A t \in tags' : UsageCount(tags', t.name) = UsageCount(tags, t.name)
             /\ \A c \in cats' : UsageCount(cats', c.name) = UsageCount(cats, c.name)]_vars

C22_NeverScheduled ==
    \A p \in posts : p.status \in {"draft", "published"}

\* A published post and a draft in the store after a restore.
C22_Witness ==
    /\ lastCall.op = "restore_database" /\ lastCall.ok
    /\ \E p \in posts : p.status = "published"
    /\ \E p \in posts : p.status = "draft"
    /\ backupOf # NoBackup
    /\ backupOf.nposts > 0

\* C23: a publish_to_wordpress that has made its POST succeeds exactly when
\* the status of the response is 201, and the post then holds the id of the
\* response body as its external_id; on every other status it fails with
\* the WordPress API error carrying the text of the response; it makes no
\* more than one POST.
C23_SuccessIsExactly201 ==
    (lastCall.op = "publish_post" /\ lastCall.adapter = "wordpress")
        => /\ lastCall.http <= 1
           /\ lastCall.http = 1
                 => /\ lastCall.ok <=> lastCall.status_code = 201
                    /\ lastCall.ok
                          => PostWithId(lastCall.id).external_id = Str("7")
                    /\ ~lastCall.ok
                          => /\ lastCall.err = "WordPress API error"
                             /\ lastCall.text = ResponseText(lastCall.status_code)

\* The platform has answered 200 and the publish request has failed.
C23_Witness ==
    /\ lastCall.op = "publish_post" /\ lastCall.adapter = "wordpress"
    /\ lastCall.http = 1
    /\ lastCall.status_code = 200
    /\ ~lastCall.ok
    /\ lastCall.text = "ok"
    /\ PostWithId(lastCall.id).status = "draft"

\* C24: the labels publish_to_blogger sends are the entries of the post's
\* tag string, split on commas and trimmed, without the empty ones: no label
\* is empty.
C24_NoEmptyLabel ==
    (lastCall.op = "publish_to_blogger" /\ lastCall.id \in PostIds)
        => /\ \A i \in 1..Len(lastCall.labels) : lastCall.labels[i] # <<>>
           /\ lastCall.labels = StrippedNonEmpty(PostWithId(lastCall.id).tags)

\* C25: a post made by save_post has as blog_target the blog_type setting of
\* that moment, and no step changes the blog_target of a post.
C25_TargetIsSnapshot ==
    [][/\ \A p \in posts, q \in posts' : p.id = q.id => q.blog_target = p.blog_target
       /\ (lastCall'.op = "save_post" /\ lastCall'.ok /\ lastCall'.id \notin PostIds)
             => \A q \in posts' : q.id = lastCall'.id
                   => q.blog_target = ValueIn(settings, "blog_type")]_vars

\* A post made under blogger, published, and saved again under wordpress.
C25_Witness ==
    /\ lastCall.op = "save_post" /\ lastCall.ok
    /\ lastCall.id \in PostIds
    /\ PostWithId(lastCall.id).blog_target = Str("blogger")
    /\ PostWithId(lastCall.id).status = "published"
    /\ Get("blog_type") = Str("wordpress")

\* C26: no handle_callback changes the stored state token, and a
\* handle_callback that follows a successful one with the same state passes
\* the state check again and makes its token exchange.
C26_StateTokenOutlivesCallback ==
    [][/\ lastCall'.op = "handle_callback"
             => {r \in settings' : r.key = "blogger_oauth_state"}
                   = {r \in settings : r.key = "blogger_oauth_state"}
       /\ (lastCall.op = "handle_callback" /\ lastCall.ok
           /\ lastCall'.op = "handle_callback" /\ lastCall'.state = lastCall.state)
             => (lastCall'.exchanges = 1 /\ lastCall'.err # "Invalid OAuth state")]_vars

\* The second of two successful callbacks with the state s1.
C26_Witness ==
    /\ lastCall.op = "handle_callback" /\ lastCall.ok
    /\ lastCall.prevOp = "handle_callback"
    /\ lastCall.prevState = Str("s1")
    /\ lastCall.state = Str("s1")
    /\ lastCall.exchanges = 1
    /\ Get("blogger_credentials").token = 2

\* C27: while the settings hold no state token, a handle_callback with a
\* state fails on the state check and makes no token exchange, and one whose
\* state is None passes the check and makes its token exchange.
C27_AbsentStateMatchesNone ==
    [][(lastCall'.op = "handle_callback"
        /\ \A r \in settings : r.key # "blogger_oauth_state")
          => IF lastCall'.state = None
             THEN lastCall'.exchanges = 1 /\ lastCall'.err # "Invalid OAuth state"
             ELSE /\ ~lastCall'.ok
                  /\ lastCall'.err = "Invalid OAuth state"
                  /\ lastCall'.exchanges = 0]_vars

\* A credential stored by a callback that carried no state, with no state
\* token ever stored.
C27_Witness ==
    /\ lastCall.op = "handle_callback" /\ lastCall.ok
    /\ lastCall.state = None
    /\ \A r \in settings : r.key # "blogger_oauth_state"
    /\ Authorized(settings)

\* C28: no step takes a post from published to draft, and a save_post
\* leaves the status, the published_date, the external_id and every field
\* other than title, content, tags and categories of a post that exists as
\* they were.
C28_PublishedStaysPublished ==
    [][/\ \A p \in posts, q \in posts' :
             (p.id = q.id /\ p.status = "published") => q.status = "published"
       /\ lastCall'.op = "save_post"
             => \A p \in posts, q \in posts' : p.id = q.id
                   => /\ q.status = p.status
                      /\ q.published_date = p.published_date
                      /\ q.external_id = p.external_id
                      /\ q.created_date = p.created_date
                      /\ q.blog_target = p.blog_target]_vars

\* A save of a post directly after its publication.
C28_Witness ==
    /\ lastCall.op = "save_post" /\ lastCall.ok
    /\ lastCall.prevOp = "publish_post"
    /\ lastCall.id \in PostIds
    /\ PostWithId(lastCall.id).status = "published"
    /\ PostWithId(lastCall.id).external_id # None
    /\ PostWithId(lastCall.id).published_date # None

\* C29: a publish request for a post that exists takes the branch of the
\* blog_type setting, whatever the post's blog_target, and leaves the
\* blog_target as it was: under wordpress the WordPress adapter is called and
\* a success stores the id it returned, under blogger no adapter is called
\* and the placeholder id is stored.
C29_PlatformFromSetting ==
    [][(lastCall'.op = "publish_post" /\ lastCall'.id \in PostIds)
          => \A p \in posts, q \in posts' : (p.id = lastCall'.id /\ q.id = p.id)
                => /\ q.blog_target = p.blog_target
                   /\ ValueIn(settings, "blog_type") = Str("wordpress")
                         => /\ lastCall'.adapter = "wordpress"
                            /\ lastCall'.http = 1
                            /\ lastCall'.ok => q.external_id = Str("7")
                   /\ ValueIn(settings, "blog_type") = Str("blogger")
                         => /\ lastCall'.ok
                            /\ lastCall'.http = 0
                            /\ q.external_id = Str("blogger_post_id")
                   /\ ValueIn(settings, "blog_type") = None
                         => /\ ~lastCall'.ok
                            /\ lastCall'.err = "No blog platform configured"]_vars

\* A post whose blog_target is blogger, published through WordPress.
C29_Witness ==
    /\ lastCall.op = "publish_post" /\ lastCall.ok
    /\ lastCall.adapter = "wordpress"
    /\ lastCall.http = 1
    /\ PostWithId(lastCall.id).blog_target = Str("blogger")
    /\ PostWithId(lastCall.id).external_id = Str("7")
    /\ PostWithId(lastCall.id).status = "published"

=============================================================================
